---- MODULE Spec2Model ----
(***************************************************************************)
(* Model of src/static/bookbot-widget.js: the BookBot floating chat panel. *)
(* The state is the widget's closure variables (state, panel, fab,         *)
(* stickBottom, the drag and resize sessions), the parts of the DOM the    *)
(* handlers read and write (inline style of the panel, the transcript      *)
(* log, the input, the send button), the localStorage item and the send    *)
(* cycles suspended at an await.  One action per event handler.            *)
(***************************************************************************)
EXTENDS Integers, Sequences, FiniteSets, TLC

VARIABLES
    inited,       \* window.__BOOKBOT_INITED__
    fabs,         \* number of .bb-fab elements in the document
    panels,       \* number of .bb-panel elements in the document
    display,      \* panel.style.display: "flex" or "none"
    fabDisplay,   \* fab.style.display: "flex" or "none"
    state,        \* the closure object `state` {open, x, y, w, h}
    ls,           \* the text stored under LS_KEY in localStorage
    lsThrows,     \* localStorage access throws (storage disabled or full)
    vw, vh,       \* window.innerWidth, window.innerHeight
    style,        \* panel.style: left/top (or unset: anchored), width, height
    drag,         \* closure of attachDrag: dragging, sx, sy, ox, oy, listeners
    resz,         \* closure of attachResize: resizing, sw, sh, sx, sy, listeners
    userSelect,   \* document.body.style.userSelect: "none" or ""
    gestures,     \* number of gestures and setPosition calls so far (bounds the model)
    pointerDown,  \* the mouse button or finger that started a gesture is still down
    log,          \* children of #bb-log, in document order
    cycles,       \* the onSend invocations: where each is suspended, its response
    inputValue,   \* input.value, a sequence of characters
    sendDisabled, \* sendBtn.disabled
    focused,      \* the input was the last element given focus
    stickBottom,  \* closure variable stickBottom
    scrollTop,    \* log.scrollTop
    scrollEvt,    \* a scroll event of the log is queued
    raf           \* the pending requestAnimationFrame callbacks, by the code that
                  \* scheduled them: "open" (lines 178-180, 190-192), "resize" (286-288)

vars == <<inited, fabs, panels, display, fabDisplay, state, ls, lsThrows, vw, vh,
          style, drag, resz, userSelect, gestures, pointerDown, log, cycles,
          inputValue,
          sendDisabled, focused, stickBottom, scrollTop, scrollEvt, raf>>

geomVars == <<vw, vh, style, drag, resz, userSelect, gestures, pointerDown>>
sendVars == <<log, cycles, inputValue, sendDisabled>>
scrollVars == <<stickBottom, scrollTop, scrollEvt, raf>>

-----------------------------------------------------------------------------
(* Bounds of the model *)

MaxGestures == 2
MaxCycles == 2
\* layout: height of one transcript row, height of header + footer + note
RowH == 150
ChromeH == 140

-----------------------------------------------------------------------------
(* Program constants *)

MARGIN == 8
MIN_W == 300
MIN_H == 380
DEFAULT_W == 360
DEFAULT_H == 520
ANCHOR == 22
MEDIA_MAX_W == 640
NEAR_BOTTOM == 4

Min(a, b) == IF a < b THEN a ELSE b
Max(a, b) == IF a > b THEN a ELSE b

-----------------------------------------------------------------------------
(* JavaScript values held in `state`: numbers, null, booleans *)

Num(n) == [t |-> "num", v |-> n]
Null == [t |-> "null", v |-> 0]
Bool(b) == [t |-> "bool", v |-> IF b THEN 1 ELSE 0]
ParseError == [t |-> "error", v |-> 0]

IsNum(x) == x.t = "num"
\* JavaScript truthiness: 0, null and false are falsy
Truthy(x) == (x.t = "num" /\ x.v # 0) \/ (x.t = "bool" /\ x.v = 1)

Keys == <<"open", "x", "y", "w", "h">>

Defaults == [open |-> Bool(FALSE), x |-> Null, y |-> Null,
             w |-> Num(DEFAULT_W), h |-> Num(DEFAULT_H)]

-----------------------------------------------------------------------------
(* JSON text.  A text is absent (no item), garbage (not JSON), the text    *)
(* `null`, or an object: a sequence of members, each a key and the         *)
(* characters of its value.                                                *)

DigitChars == <<"0", "1", "2", "3", "4", "5", "6", "7", "8", "9">>
NullText == <<"n", "u", "l", "l">>
TrueText == <<"t", "r", "u", "e">>
FalseText == <<"f", "a", "l", "s", "e">>

RECURSIVE Digits(_)
Digits(n) == IF n < 10 THEN <<DigitChars[n + 1]>>
             ELSE Append(Digits(n \div 10), DigitChars[(n % 10) + 1])

\* mutant of ValueText: the sign of a negative number is lost
ValueText_nosign(x) ==
    IF x.t = "num" THEN Digits(IF x.v < 0 THEN 0 - x.v ELSE x.v)
    ELSE IF x.t = "bool" THEN (IF x.v = 1 THEN TrueText ELSE FalseText)
    ELSE NullText

\* JSON.stringify of one value
ValueText(x) ==
    IF x.t = "num" THEN (IF x.v < 0 THEN <<"-">> \o Digits(0 - x.v) ELSE Digits(x.v))
    ELSE IF x.t = "bool" THEN (IF x.v = 1 THEN TrueText ELSE FalseText)
    ELSE NullText

IsDigit(c) == \E i \in 1..10 : DigitChars[i] = c
DigitVal(c) == (CHOOSE i \in 1..10 : DigitChars[i] = c) - 1

RECURSIVE ParseDigits(_)
ParseDigits(cs) == IF Len(cs) = 0 THEN 0
                   ELSE ParseDigits(SubSeq(cs, 1, Len(cs) - 1)) * 10 + DigitVal(cs[Len(cs)])

IsDigitsText(cs) == Len(cs) > 0 /\ \A i \in 1..Len(cs) : IsDigit(cs[i])

\* JSON.parse of one value
ParseValue(cs) ==
    IF cs = NullText THEN Null
    ELSE IF cs = TrueText THEN Bool(TRUE)
    ELSE IF cs = FalseText THEN Bool(FALSE)
    ELSE IF IsDigitsText(cs) THEN Num(ParseDigits(cs))
    ELSE IF Len(cs) > 1 /\ cs[1] = "-" /\ IsDigitsText(Tail(cs))
         THEN Num(0 - ParseDigits(Tail(cs)))
    ELSE ParseError

NoItem == [t |-> "absent", m |-> <<>>]
Garbage == [t |-> "garbage", m |-> <<>>]
NullItem == [t |-> "null", m |-> <<>>]
ObjectText(ms) == [t |-> "object", m |-> ms]
Member(k, cs) == [k |-> k, c |-> cs]

\* JSON.stringify(state): the members in insertion order
Stringify(s) == ObjectText([i \in 1..Len(Keys) |-> Member(Keys[i], ValueText(s[Keys[i]]))])

\* JSON.parse throws on this text
ParseThrows(text) ==
    \/ text.t = "garbage"
    \/ text.t = "object" /\ \E i \in 1..Len(text.m) : ParseValue(text.m[i].c) = ParseError

\* the object JSON.parse returns for an object text (a later duplicate key wins)
ParseObject(ms) ==
    [key \in {ms[i].k : i \in 1..Len(ms)} |->
        LET last == CHOOSE i \in 1..Len(ms) :
                        ms[i].k = key /\ \A j \in 1..Len(ms) : ms[j].k = key => j <= i
        IN ParseValue(ms[last].c)]

\* Object.assign(target, src)
Assign(target, src) ==
    [key \in (DOMAIN target) \cup (DOMAIN src) |->
        IF key \in DOMAIN src THEN src[key] ELSE target[key]]

\* lines 79-83: the defaults, overwritten by whatever the stored text decodes to
Load(text, throws) ==
    IF throws \/ ParseThrows(text) THEN Defaults
    ELSE IF text.t = "object" THEN Assign(Defaults, ParseObject(text.m))
    ELSE Defaults

\* saveState: the item after localStorage.setItem, which may throw and is swallowed
SaveState(s, cur, throws) == IF throws THEN cur ELSE Stringify(s)

-----------------------------------------------------------------------------
(* Layout: what the browser computes from the stylesheet (lines 26-33, 47-51) *)
(* and the panel's inline style.                                              *)

\* a number the browser accepts as a CSS width/height in px
ValidLength(x) == IsNum(x) /\ x.v >= 0

\* makePanel, lines 120-128: the inline style a new panel gets from `state`.
\* An inline length the browser rejects leaves the stylesheet's value.
PanelStyle(s, w, h) ==
    LET sw == IF Truthy(s.w) THEN s.w ELSE Num(DEFAULT_W)
        sh == IF Truthy(s.h) THEN s.h ELSE Num(DEFAULT_H)
        placed == s.x.t # "null" /\ s.y.t # "null"
    IN [anchored |-> ~placed,
        left |-> IF placed THEN s.x.v ELSE 0,
        top |-> IF placed THEN s.y.v ELSE 0,
        width |-> IF ValidLength(sw) THEN sw.v
                  ELSE IF w <= MEDIA_MAX_W THEN w ELSE DEFAULT_W,
        height |-> IF ValidLength(sh) THEN sh.v
                   ELSE IF w <= MEDIA_MAX_W THEN h ELSE DEFAULT_H]

\* panel.getBoundingClientRect(): all zero while the panel is not displayed;
\* anchored right/bottom by 22px (or filling a narrow viewport from 0,0) until
\* left/top are set inline
Rect(sty, disp, w, h) ==
    IF disp = "none" THEN [left |-> 0, top |-> 0, width |-> 0, height |-> 0]
    ELSE [left |-> IF ~sty.anchored THEN sty.left
                   ELSE IF w <= MEDIA_MAX_W THEN 0 ELSE w - ANCHOR - sty.width,
          top |-> IF ~sty.anchored THEN sty.top
                  ELSE IF w <= MEDIA_MAX_W THEN 0 ELSE h - ANCHOR - sty.height,
          width |-> sty.width,
          height |-> sty.height]

\* log.clientHeight and the largest scroll offset of the log
ClientHeight(sty) == Max(0, sty.height - ChromeH)
ScrollMax(lg, sty) == Max(0, Len(lg) * RowH - ClientHeight(sty))

\* the scroll listener's test, line 157
NearBottom(top, lg, sty) == top >= ScrollMax(lg, sty) - NEAR_BOTTOM

-----------------------------------------------------------------------------
(* Transcript rows *)

Row(type, kind, cyc) == [type |-> type, kind |-> kind, cyc |-> cyc]
Greeting == Row("bot", "greeting", 0)

\* mutant of ScrollAfterAppend: an append always scrolls to the bottom
ScrollAfterAppend_always(lg2, sty, stick, top) == ScrollMax(lg2, sty)

\* append / showTyping, lines 304-322: the scroll offset after a row is added
ScrollAfterAppend(lg2, sty, stick, top) == IF stick THEN ScrollMax(lg2, sty) ELSE top

-----------------------------------------------------------------------------
(* Panel lifecycle *)

\* mutant of OpenPanel: opening also records where the panel is shown
OpenPanel_recordsPosition(s) ==
    /\ display' = "flex"
    /\ state' = [s EXCEPT !.open = Bool(TRUE),
                          !.x = Num(Rect(style, "flex", vw, vh).left),
                          !.y = Num(Rect(style, "flex", vw, vh).top)]
    /\ ls' = SaveState(state', ls, lsThrows)
    /\ fabDisplay' = "none"
    /\ focused' = TRUE
    /\ raf' = raf \cup {"open"}

\* mutant of OpenPanel: opening toggles, so a second open hides the panel again
OpenPanel_toggles(s) ==
    /\ display' = (IF display = "flex" THEN "none" ELSE "flex")
    /\ state' = [s EXCEPT !.open = Bool(display' = "flex")]
    /\ ls' = SaveState(state', ls, lsThrows)
    /\ fabDisplay' = (IF display' = "flex" THEN "none" ELSE "flex")
    /\ focused' = TRUE
    /\ raf' = raf \cup {"open"}

\* openPanel, lines 183-193 (the panel exists: makePanel returns at once)
OpenPanel(s) ==
    /\ display' = "flex"
    /\ state' = [s EXCEPT !.open = Bool(TRUE)]
    /\ ls' = SaveState(state', ls, lsThrows)
    /\ fabDisplay' = "none"
    /\ focused' = TRUE
    /\ raf' = raf \cup {"open"}

\* mutant of ClosePanel: the trigger is not shown again
ClosePanel_keepsTrigger(s) ==
    /\ state' = [s EXCEPT !.open = Bool(FALSE)]
    /\ ls' = SaveState(state', ls, lsThrows)
    /\ display' = "none"
    /\ fabDisplay' = fabDisplay

\* closePanel, lines 195-200
ClosePanel(s) ==
    /\ state' = [s EXCEPT !.open = Bool(FALSE)]
    /\ ls' = SaveState(state', ls, lsThrows)
    /\ display' = "none"
    /\ fabDisplay' = "flex"

\* mutant of RunScript: the __BOOKBOT_INITED__ guard of lines 1-3 is missing
RunScript_noGuard ==
    LET s0 == Load(ls, lsThrows) IN
    /\ inited' = TRUE
    /\ fabs' = fabs + 1
    /\ panels' = panels + 1
    /\ style' = PanelStyle(s0, vw, vh)
    /\ log' = Append(log, Greeting)
    /\ scrollTop' = ScrollAfterAppend(log', style', stickBottom, scrollTop)
    /\ IF Truthy(s0.open)
       THEN OpenPanel(s0)
       ELSE ClosePanel(s0) /\ raf' = raf \cup {"open"} /\ UNCHANGED focused
    /\ UNCHANGED <<lsThrows, vw, vh, drag, resz, userSelect, gestures, pointerDown, cycles,
                   inputValue, sendDisabled, stickBottom, scrollEvt>>

\* lines 1-3, 79-83, 384-390: the entry script; a second run returns at line 2
RunScript ==
    IF inited THEN UNCHANGED vars
    ELSE LET s0 == Load(ls, lsThrows) IN
         /\ inited' = TRUE
         /\ fabs' = fabs + 1
         /\ panels' = panels + 1
         /\ style' = PanelStyle(s0, vw, vh)
         /\ log' = <<Greeting>>
         /\ scrollTop' = ScrollAfterAppend(log', style', stickBottom, scrollTop)
         /\ IF Truthy(s0.open)
            THEN OpenPanel(s0)
            ELSE ClosePanel(s0) /\ raf' = raf \cup {"open"} /\ UNCHANGED focused
         /\ UNCHANGED <<lsThrows, vw, vh, drag, resz, userSelect, gestures, pointerDown, cycles,
                        inputValue, sendDisabled, stickBottom, scrollEvt>>

lifecycleFrame == <<inited, fabs, panels, lsThrows, geomVars, sendVars,
                    stickBottom, scrollTop, scrollEvt>>

\* click on the trigger (line 112)
FabClick ==
    /\ inited /\ fabDisplay = "flex"
    /\ OpenPanel(state)
    /\ UNCHANGED lifecycleFrame

\* window.BookBotWidget.open (line 393)
ApiOpen ==
    /\ inited
    /\ OpenPanel(state)
    /\ UNCHANGED lifecycleFrame

\* click on #bb-close (line 161)
CloseClick ==
    /\ inited /\ display = "flex"
    /\ ClosePanel(state)
    /\ UNCHANGED <<lifecycleFrame, focused, raf>>

\* Escape in the input (lines 172-174)
KeyEscape ==
    /\ inited /\ display = "flex"
    /\ ClosePanel(state)
    /\ UNCHANGED <<lifecycleFrame, focused, raf>>

\* window.BookBotWidget.close (line 394)
ApiClose ==
    /\ inited
    /\ ClosePanel(state)
    /\ UNCHANGED <<lifecycleFrame, focused, raf>>

-----------------------------------------------------------------------------
(* Pointer input *)

\* pointer positions (clientX, clientY) of gesture starts and of moves
StartPoints == {<<0, 0>>, <<40, 40>>}
MovePoints == {<<-310, -470>>, <<700, 300>>, <<-2000, -2000>>}
\* arguments the host page passes to setPosition
Positions == {<<100, 120>>, <<-50, 2000>>}

\* getPoint, lines 101-104: the first touch point, else the mouse coordinates
getPoint(e) == [x |-> e[1], y |-> e[2]]

-----------------------------------------------------------------------------
(* Viewport clamping, drag and resize *)

\* mutant of clampIntoViewport: only the lower bound is applied
clampIntoViewport_lowerOnly(sty, s, disp) ==
    LET r == Rect(sty, disp, vw, vh)
        nx == Max(MARGIN, r.left)
        ny == Max(MARGIN, r.top)
    IN [style |-> [sty EXCEPT !.left = nx, !.top = ny, !.anchored = FALSE],
        state |-> [s EXCEPT !.x = Num(nx), !.y = Num(ny),
                            !.w = Num(r.width), !.h = Num(r.height)]]

\* clampIntoViewport, lines 202-217: the style and `state` it leaves
clampIntoViewport(sty, s, disp) ==
    LET r == Rect(sty, disp, vw, vh)
        nx == Min(Max(MARGIN, r.left), vw - r.width - MARGIN)
        ny == Min(Max(MARGIN, r.top), vh - r.height - MARGIN)
    IN [style |-> [sty EXCEPT !.left = nx, !.top = ny, !.anchored = FALSE],
        state |-> [s EXCEPT !.x = Num(nx), !.y = Num(ny),
                            !.w = Num(r.width), !.h = Num(r.height)]]

NoDrag == [dragging |-> FALSE, sx |-> 0, sy |-> 0, ox |-> 0, oy |-> 0, listening |-> FALSE]
NoResize == [resizing |-> FALSE, sw |-> 0, sh |-> 0, sx |-> 0, sy |-> 0, listening |-> FALSE]

\* attachDrag start, lines 222-235: mousedown/touchstart on the header
DragStart(e) ==
    /\ inited /\ display = "flex"
    /\ gestures < MaxGestures
    /\ LET r == Rect(style, display, vw, vh)
           p == getPoint(e)
       IN drag' = [dragging |-> TRUE, sx |-> p.x, sy |-> p.y,
                   ox |-> r.left, oy |-> r.top, listening |-> TRUE]
    /\ userSelect' = "none"
    /\ gestures' = gestures + 1
    /\ pointerDown' = TRUE
    /\ UNCHANGED <<inited, fabs, panels, display, fabDisplay, state, ls, lsThrows,
                   vw, vh, style, resz, sendVars, focused, scrollVars>>

\* attachResize start, lines 264-277: mousedown/touchstart on the corner handle
ResizeStart(e) ==
    /\ inited /\ display = "flex"
    /\ gestures < MaxGestures
    /\ LET r == Rect(style, display, vw, vh)
           p == getPoint(e)
       IN resz' = [resizing |-> TRUE, sw |-> r.width, sh |-> r.height,
                   sx |-> p.x, sy |-> p.y, listening |-> TRUE]
    /\ gestures' = gestures + 1
    /\ pointerDown' = TRUE
    /\ UNCHANGED <<inited, fabs, panels, display, fabDisplay, state, ls, lsThrows,
                   vw, vh, style, drag, userSelect, sendVars, focused, scrollVars>>

\* attachDrag move, lines 236-246: the style it leaves
DragMove(sty, d, e) ==
    IF ~d.dragging THEN sty
    ELSE LET p == getPoint(e)
         IN [sty EXCEPT !.left = d.ox + (p.x - d.sx),
                        !.top = d.oy + (p.y - d.sy),
                        !.anchored = FALSE]

\* mutant of ResizeMove: the height has no floor
ResizeMove_noFloor(sty, z, e) ==
    IF ~z.resizing THEN sty
    ELSE LET p == getPoint(e)
         IN [sty EXCEPT !.width = Max(MIN_W, z.sw + (p.x - z.sx)),
                        !.height = z.sh + (p.y - z.sy)]

\* attachResize move, lines 278-284: the style it leaves
ResizeMove(sty, z, e) ==
    IF ~z.resizing THEN sty
    ELSE LET p == getPoint(e)
         IN [sty EXCEPT !.width = Max(MIN_W, z.sw + (p.x - z.sx)),
                        !.height = Max(MIN_H, z.sh + (p.y - z.sy))]

\* mutant of PointerMove: every move also records and saves the position
PointerMove_saves(e) ==
    /\ drag.listening \/ resz.listening
    /\ LET s1 == IF drag.listening THEN DragMove(style, drag, e) ELSE style
           s2 == IF resz.listening THEN ResizeMove(s1, resz, e) ELSE s1
           top == Min(scrollTop, ScrollMax(log, s2))
       IN /\ style' = s2
          /\ scrollTop' = top
          /\ scrollEvt' = (scrollEvt \/ top # scrollTop)
          /\ state' = [state EXCEPT !.x = Num(Rect(s2, display, vw, vh).left),
                                    !.y = Num(Rect(s2, display, vw, vh).top)]
          /\ ls' = SaveState(state', ls, lsThrows)
    /\ raf' = raf \cup (IF resz.listening /\ resz.resizing /\ stickBottom
                      THEN {"resize"} ELSE {})
    /\ UNCHANGED <<inited, fabs, panels, display, fabDisplay, lsThrows,
                   vw, vh, drag, resz, userSelect, gestures, pointerDown, sendVars,
                   focused, stickBottom>>

\* mousemove/touchmove on the document: every attached move listener runs.
\* A change of the log's height clamps its scroll offset (and queues a scroll
\* event); lines 286-288 schedule the re-stick.
PointerMove(e) ==
    /\ drag.listening \/ resz.listening
    /\ LET s1 == IF drag.listening THEN DragMove(style, drag, e) ELSE style
           s2 == IF resz.listening THEN ResizeMove(s1, resz, e) ELSE s1
           top == Min(scrollTop, ScrollMax(log, s2))
       IN /\ style' = s2
          /\ scrollTop' = top
          /\ scrollEvt' = (scrollEvt \/ top # scrollTop)
    /\ raf' = raf \cup (IF resz.listening /\ resz.resizing /\ stickBottom
                      THEN {"resize"} ELSE {})
    /\ UNCHANGED <<inited, fabs, panels, display, fabDisplay, state, ls, lsThrows,
                   vw, vh, drag, resz, userSelect, gestures, pointerDown, sendVars,
                   focused, stickBottom>>

\* attachDrag end, lines 247-256: the clamp it applies
DragEnd(c, d, disp) ==
    IF ~d.dragging THEN c ELSE clampIntoViewport(c.style, c.state, disp)

\* attachResize end, lines 291-299: the clamp it applies
ResizeEnd(c, z, disp) ==
    IF ~z.resizing THEN c ELSE clampIntoViewport(c.style, c.state, disp)

\* mouseup/touchend on the document: every attached end listener runs
PointerUp ==
    /\ drag.listening \/ resz.listening
    /\ LET c0 == [style |-> style, state |-> state]
           c1 == IF drag.listening THEN DragEnd(c0, drag, display) ELSE c0
           c2 == IF resz.listening THEN ResizeEnd(c1, resz, display) ELSE c1
           saved == (drag.listening /\ drag.dragging) \/ (resz.listening /\ resz.resizing)
       IN /\ style' = c2.style
          /\ state' = c2.state
          /\ ls' = IF saved THEN SaveState(c2.state, ls, lsThrows) ELSE ls
    /\ drag' = IF drag.listening /\ drag.dragging
               THEN [drag EXCEPT !.dragging = FALSE, !.listening = FALSE] ELSE drag
    /\ resz' = IF resz.listening /\ resz.resizing
               THEN [resz EXCEPT !.resizing = FALSE, !.listening = FALSE] ELSE resz
    /\ userSelect' = IF drag.listening /\ drag.dragging THEN "" ELSE userSelect
    /\ pointerDown' = FALSE
    /\ UNCHANGED <<inited, fabs, panels, display, fabDisplay, lsThrows, vw, vh,
                   gestures, sendVars, focused, scrollVars>>

\* window.BookBotWidget.setPosition, lines 395-404
setPosition(x, y) ==
    /\ inited
    /\ gestures < MaxGestures
    /\ gestures' = gestures + 1
    /\ style' = [style EXCEPT !.left = x, !.top = y, !.anchored = FALSE]
    /\ state' = [state EXCEPT !.x = Num(x), !.y = Num(y)]
    /\ ls' = SaveState(state', ls, lsThrows)
    /\ UNCHANGED <<inited, fabs, panels, display, fabDisplay, lsThrows, vw, vh,
                   drag, resz, userSelect, pointerDown, sendVars, focused, scrollVars>>

\* The browser ends a touch sequence with touchcancel (a system gesture, an
\* interruption).  Lines 231-234 and 273-276 register mousemove, mouseup,
\* touchmove and touchend only, so no handler of the widget runs.
TouchCancel ==
    /\ pointerDown
    /\ pointerDown' = FALSE
    /\ UNCHANGED <<inited, fabs, panels, display, fabDisplay, state, ls, lsThrows,
                   vw, vh, style, drag, resz, userSelect, gestures, sendVars,
                   focused, scrollVars>>

-----------------------------------------------------------------------------
(* Initial states: the page before the entry script runs *)

Viewports == {<<1024, 768>>, <<320, 480>>}

\* what localStorage may hold under LS_KEY when the script starts
StoredTexts ==
    { NoItem, Garbage, NullItem,
      ObjectText(<<Member("w", <<"3", "6">> \o <<"x">>)>>),
      Stringify([open |-> Bool(TRUE), x |-> Num(100), y |-> Num(120),
                 w |-> Num(400), h |-> Num(400)]),
      Stringify([open |-> Bool(TRUE), x |-> Num(-500), y |-> Null,
                 w |-> Num(300), h |-> Num(380)]),
      ObjectText(<<Member("w", Digits(100)), Member("h", Digits(100))>>),
      ObjectText(<<Member("open", TrueText), Member("h", NullText)>>) }

InitCommon ==
    /\ inited = FALSE
    /\ fabs = 0 /\ panels = 0
    /\ display = "none" /\ fabDisplay = "none"
    /\ state = Defaults
    /\ style = PanelStyle(Defaults, vw, vh)
    /\ drag = NoDrag /\ resz = NoResize
    /\ userSelect = ""
    /\ gestures = 0
    /\ pointerDown = FALSE
    /\ log = <<>>
    /\ cycles = <<>>
    /\ inputValue = <<>>
    /\ sendDisabled = FALSE
    /\ focused = FALSE
    /\ stickBottom = TRUE
    /\ scrollTop = 0
    /\ scrollEvt = FALSE
    /\ raf = {}

\* a page with empty storage: a wide or a narrow viewport
GestureInit ==
    /\ \E v \in Viewports : vw = v[1] /\ vh = v[2]
    /\ ls = NoItem /\ lsThrows = FALSE
    /\ InitCommon

Init ==
    /\ \E v \in Viewports : vw = v[1] /\ vh = v[2]
    /\ \/ lsThrows = FALSE /\ ls \in StoredTexts
       \/ lsThrows = TRUE /\ ls = NoItem
    /\ InitCommon

\* panel lifecycle, storage and geometry
GeomNext ==
    \/ RunScript
    \/ FabClick
    \/ ApiOpen
    \/ CloseClick
    \/ KeyEscape
    \/ ApiClose
    \/ \E e \in StartPoints : DragStart(e)
    \/ \E e \in StartPoints : ResizeStart(e)
    \/ \E e \in MovePoints : PointerMove(e)
    \/ PointerUp
    \/ \E p \in Positions : setPosition(p[1], p[2])

GeomSpec == Init /\ [][GeomNext]_vars

\* gestures on a page with empty storage, with the ways a gesture can end
GestureNext ==
    \/ RunScript
    \/ FabClick
    \/ CloseClick
    \/ \E e \in StartPoints : DragStart(e)
    \/ \E e \in StartPoints : ResizeStart(e)
    \/ \E e \in MovePoints : PointerMove(e)
    \/ PointerUp
    \/ TouchCancel

GestureSpec == GestureInit /\ [][GestureNext]_vars

-----------------------------------------------------------------------------
(* Response payloads and render dispatch *)

\* a value that may be a list: absent, a truthy non-list, or a list of items,
\* each an object ("obj"), a string ("str") or null ("null")
Absent == [t |-> "absent", items |-> <<>>]
NonList == [t |-> "nonlist", items |-> <<>>]
List(items) == [t |-> "list", items |-> items]
HasNull(l) == \E i \in 1..Len(l.items) : l.items[i] = "null"

\* a parsed response body: falsy (null, 0, "", false) or an object with these fields
Payload(recs, follow, summary, bullets, answer, books, raw) ==
    [falsy |-> FALSE, recommendations |-> recs, follow_up |-> follow,
     summary |-> summary, bullets |-> bullets, answer |-> answer,
     books |-> books, raw |-> raw]
EmptyObject == Payload(Absent, FALSE, FALSE, Absent, FALSE, Absent, FALSE)
FalsyData == [EmptyObject EXCEPT !.falsy = TRUE]

\* bodies the service answers with: a well-formed recommendation list (with a
\* summary beside it), a list with a null entry, a summary whose bullets are
\* not a list, and a falsy body
Payloads ==
    { FalsyData,
      Payload(List(<<"obj">>), TRUE, TRUE, List(<<"str">>), FALSE, Absent, FALSE),
      Payload(List(<<"obj", "null">>), FALSE, FALSE, Absent, FALSE, Absent, FALSE),
      Payload(Absent, FALSE, TRUE, NonList, FALSE, Absent, FALSE) }

\* a response: its status is 2xx or not; its body parses to `data` or does not
Response(ok, parsable, data) == [ok |-> ok, parsable |-> parsable, data |-> data]
NoResponse == Response(FALSE, FALSE, EmptyObject)
Responses ==
    {Response(TRUE, TRUE, d) : d \in Payloads}
    \cup {Response(TRUE, FALSE, EmptyObject), Response(FALSE, FALSE, EmptyObject)}

Rendered(kind) == [threw |-> FALSE, kind |-> kind]
Threw == [threw |-> TRUE, kind |-> "none"]

\* mutant of renderBot: the summary branch is tested before the recommendations
renderBot_summaryFirst(data) ==
    IF ~data.falsy /\ data.summary
    THEN IF data.bullets.t = "nonlist" THEN Threw ELSE Rendered("summary")
    ELSE IF ~data.falsy /\ data.recommendations.t = "list"
    THEN IF HasNull(data.recommendations) THEN Threw ELSE Rendered("recommendations")
    ELSE IF ~data.falsy /\ data.answer
    THEN IF data.books.t = "nonlist" \/ HasNull(data.books) THEN Threw
         ELSE Rendered("answer")
    ELSE IF ~data.falsy /\ data.raw THEN Rendered("raw")
    ELSE Rendered("fallback")

\* renderBot, lines 324-347: the kind of row it appends, or that it throws
\* before appending (x.title of a null entry, .map of a non-list)
renderBot(data) ==
    IF ~data.falsy /\ data.recommendations.t = "list"
    THEN IF HasNull(data.recommendations) THEN Threw ELSE Rendered("recommendations")
    ELSE IF ~data.falsy /\ data.summary
    THEN IF data.bullets.t = "nonlist" THEN Threw ELSE Rendered("summary")
    ELSE IF ~data.falsy /\ data.answer
    THEN IF data.books.t = "nonlist" \/ HasNull(data.books) THEN Threw
         ELSE Rendered("answer")
    ELSE IF ~data.falsy /\ data.raw THEN Rendered("raw")
    ELSE Rendered("fallback")

-----------------------------------------------------------------------------
(* The send cycle *)

InputTexts == {<<" ">>, <<" ", "h", "i", " ">>}

\* String.prototype.trim, line 351
RECURSIVE trim(_)
trim(t) == IF Len(t) = 0 THEN t
           ELSE IF t[1] = " " THEN trim(Tail(t))
           ELSE IF t[Len(t)] = " " THEN trim(SubSeq(t, 1, Len(t) - 1))
           ELSE t

Cycle(pc, text, res) == [pc |-> pc, text |-> text, res |-> res, out |-> "none"]
Pending(i) == cycles[i].pc \in {"fetch", "json"}
TypingRow(i) == Row("bot", "typing", i)

\* the user types into the input
Type(t) ==
    /\ inited /\ display = "flex"
    /\ inputValue' = t
    /\ UNCHANGED <<inited, fabs, panels, display, fabDisplay, state, ls, lsThrows,
                   geomVars, log, cycles, sendDisabled, focused, scrollVars>>

\* onSend up to its first await, lines 350-362
onSend ==
    LET text == trim(inputValue)
        n == Len(cycles) + 1
        log1 == Append(log, Row("you", "user", n))
        top1 == ScrollAfterAppend(log1, style, stickBottom, scrollTop)
        log2 == Append(log1, TypingRow(n))
        top2 == ScrollAfterAppend(log2, style, stickBottom, top1)
    IN IF text = <<>> THEN UNCHANGED vars
       ELSE /\ Len(cycles) < MaxCycles
            /\ log' = log2
            /\ scrollTop' = top2
            /\ scrollEvt' = (scrollEvt \/ top2 # scrollTop)
            /\ inputValue' = <<>>
            /\ sendDisabled' = TRUE
            /\ cycles' = Append(cycles, Cycle("fetch", text, NoResponse))
            /\ UNCHANGED <<inited, fabs, panels, display, fabDisplay, state, ls,
                           lsThrows, geomVars, focused, stickBottom, raf>>

\* click on the send button (line 166); a disabled button receives no click
ClickSend ==
    /\ inited /\ display = "flex" /\ ~sendDisabled
    /\ onSend

\* Enter without Shift in the input (lines 167-171)
KeyEnter ==
    /\ inited /\ display = "flex"
    /\ onSend

\* fetch resolves with a response (line 358); the body is then awaited (line 365)
FetchResolve(i, res) ==
    /\ i \in 1..Len(cycles) /\ cycles[i].pc = "fetch"
    /\ cycles' = [cycles EXCEPT ![i].pc = "json", ![i].res = res]
    /\ UNCHANGED <<inited, fabs, panels, display, fabDisplay, state, ls, lsThrows,
                   geomVars, log, inputValue, sendDisabled, focused, scrollVars>>

\* mutant of RemoveRow: every typing row is removed, not only the cycle's own
RemoveRow_everyTyping(lg, row) == SelectSeq(lg, LAMBDA r : r.kind # row.kind)

\* typing.remove(), line 377: the log without that row

RemoveRow(lg, row) == SelectSeq(lg, LAMBDA r : r # row)

\* mutant of Finish: the finally block does not re-enable the send button
Finish_staysDisabled(i, kind, out) ==
    LET log1 == Append(log, Row("bot", kind, i))
        top1 == ScrollAfterAppend(log1, style, stickBottom, scrollTop)
        log2 == RemoveRow(log1, TypingRow(i))
        top2 == Min(top1, ScrollMax(log2, style))
    IN /\ log' = log2
       /\ scrollTop' = top2
       /\ scrollEvt' = (scrollEvt \/ top2 # scrollTop)
       /\ sendDisabled' = sendDisabled
       /\ focused' = TRUE
       /\ cycles' = [cycles EXCEPT ![i].pc = "done", ![i].out = out]
       /\ UNCHANGED <<inited, fabs, panels, display, fabDisplay, state, ls, lsThrows,
                      geomVars, inputValue, stickBottom, raf>>

\* the rest of onSend once its last await has settled: one appendBot (lines
\* 370, 372 or 375), then the finally block (lines 376-380)
Finish(i, kind, out) ==
    LET log1 == Append(log, Row("bot", kind, i))
        top1 == ScrollAfterAppend(log1, style, stickBottom, scrollTop)
        log2 == RemoveRow(log1, TypingRow(i))
        top2 == Min(top1, ScrollMax(log2, style))
    IN /\ log' = log2
       /\ scrollTop' = top2
       /\ scrollEvt' = (scrollEvt \/ top2 # scrollTop)
       /\ sendDisabled' = FALSE
       /\ focused' = TRUE
       /\ cycles' = [cycles EXCEPT ![i].pc = "done", ![i].out = out]
       /\ UNCHANGED <<inited, fabs, panels, display, fabDisplay, state, ls, lsThrows,
                      geomVars, inputValue, stickBottom, raf>>

\* fetch rejects (network failure): the catch block, lines 374-375
FetchReject(i) ==
    /\ i \in 1..Len(cycles) /\ cycles[i].pc = "fetch"
    /\ Finish(i, "network_error", "rejected")

\* res.json() settles, lines 363-373: an unparsable body gives data = null;
\* an exception of renderBot is caught by the catch block of line 374
JsonSettle(i) ==
    /\ i \in 1..Len(cycles) /\ cycles[i].pc = "json"
    /\ LET res == cycles[i].res
           data == IF res.parsable /\ ~res.data.falsy THEN res.data ELSE EmptyObject
           r == renderBot(data)
       IN IF ~res.ok THEN Finish(i, "server_error", "status")
          ELSE IF r.threw THEN Finish(i, "network_error", "threw")
          ELSE Finish(i, r.kind, "rendered")

-----------------------------------------------------------------------------
(* Focus, scrolling and animation frames *)

\* the user moves the focus away from the input
Blur ==
    /\ inited /\ focused
    /\ focused' = FALSE
    /\ UNCHANGED <<inited, fabs, panels, display, fabDisplay, state, ls, lsThrows,
                   geomVars, sendVars, scrollVars>>

\* offsets the user scrolls the log to
ScrollOffsets(lg, sty) ==
    {0, ScrollMax(lg, sty) - NEAR_BOTTOM - 1, ScrollMax(lg, sty) - NEAR_BOTTOM,
     ScrollMax(lg, sty)} \cap (0..ScrollMax(lg, sty))

\* the user scrolls the log; the browser queues a scroll event
UserScroll(top) ==
    /\ inited /\ display = "flex"
    /\ top \in ScrollOffsets(log, style) /\ top # scrollTop
    /\ scrollTop' = top
    /\ scrollEvt' = TRUE
    /\ UNCHANGED <<inited, fabs, panels, display, fabDisplay, state, ls, lsThrows,
                   geomVars, sendVars, focused, stickBottom, raf>>

\* the scroll listener, lines 156-159
ScrollListener ==
    /\ scrollEvt
    /\ stickBottom' = NearBottom(scrollTop, log, style)
    /\ scrollEvt' = FALSE
    /\ UNCHANGED <<inited, fabs, panels, display, fabDisplay, state, ls, lsThrows,
                   geomVars, sendVars, focused, scrollTop, raf>>

\* the pending requestAnimationFrame callbacks (lines 178-180, 190-192,
\* 286-288) all run in the next frame; each sets scrollTop = scrollHeight
AnimationFrame ==
    /\ raf # {}
    /\ scrollTop' = ScrollMax(log, style)
    /\ scrollEvt' = (scrollEvt \/ scrollTop' # scrollTop)
    /\ raf' = {}
    /\ UNCHANGED <<inited, fabs, panels, display, fabDisplay, state, ls, lsThrows,
                   geomVars, sendVars, focused, stickBottom>>

\* a page with empty storage and a wide viewport
SendInit ==
    /\ vw = 1024 /\ vh = 768
    /\ ls = NoItem /\ lsThrows = FALSE
    /\ InitCommon

\* the dispatcher and the transcript, with opening and closing the panel
SendNext ==
    \/ RunScript
    \/ FabClick
    \/ CloseClick
    \/ KeyEscape
    \/ \E t \in InputTexts : Type(t)
    \/ ClickSend
    \/ KeyEnter
    \/ \E i \in 1..MaxCycles, res \in Responses : FetchResolve(i, res)
    \/ \E i \in 1..MaxCycles : FetchReject(i)
    \/ \E i \in 1..MaxCycles : JsonSettle(i)
    \/ Blur
    \/ ScrollListener
    \/ AnimationFrame

SendSpec == SendInit /\ [][SendNext]_vars

\* bodies with every combination of the fields the dispatch looks at:
\* recommendations absent, a non-list, an empty or a one-entry list; summary,
\* answer and raw present or not; and bodies on which rendering throws
ShapePayloads ==
    { Payload(recs, FALSE, summary, Absent, answer, Absent, raw) :
        recs \in {Absent, NonList, List(<<>>), List(<<"obj">>)},
        summary \in BOOLEAN, answer \in BOOLEAN, raw \in BOOLEAN }
    \cup { FalsyData,
           Payload(List(<<"obj", "null">>), FALSE, TRUE, Absent, TRUE, Absent, FALSE),
           Payload(NonList, FALSE, TRUE, NonList, TRUE, Absent, TRUE) }

\* the render dispatch: sends on an open panel, each answered with a body
RenderNext ==
    \/ RunScript
    \/ FabClick
    \/ Type(<<"h", "i">>)
    \/ ClickSend
    \/ \E i \in 1..MaxCycles, d \in ShapePayloads : FetchResolve(i, Response(TRUE, TRUE, d))
    \/ \E i \in 1..MaxCycles : JsonSettle(i)

RenderSpec == SendInit /\ [][RenderNext]_vars

\* the transcript's scroll position on an open panel: sends that fail, user
\* scrolls, a resize, and the scroll events and animation frames that follow
ScrollNext ==
    \/ RunScript
    \/ FabClick
    \/ Type(<<"h", "i">>)
    \/ ClickSend
    \/ \E i \in 1..MaxCycles : FetchReject(i)
    \/ \E top \in ScrollOffsets(log, style) : UserScroll(top)
    \/ ScrollListener
    \/ AnimationFrame
    \/ ResizeStart(<<0, 0>>)
    \/ \E e \in MovePoints : PointerMove(e)
    \/ PointerUp

ScrollSpec == SendInit /\ [][ScrollNext]_vars

-----------------------------------------------------------------------------
(* Claims about the send cycle, checked under SendSpec *)

Started == 1..Len(cycles)
RowsOf(lg, type, i) == {k \in 1..Len(lg) : lg[k].type = type /\ lg[k].cyc = i
                                           /\ lg[k].kind # "typing"}
HasRow(lg, row) == \E k \in 1..Len(lg) : lg[k] = row

\* the shape the render dispatch is specified to pick for a parsed body
Dispatch(data) ==
    IF data.falsy THEN "fallback"
    ELSE IF data.recommendations.t = "list" THEN "recommendations"
    ELSE IF data.summary THEN "summary"
    ELSE IF data.answer THEN "answer"
    ELSE IF data.raw THEN "raw"
    ELSE "fallback"

\* the bot row a settled cycle is specified to end with
Expected(c) ==
    IF c.out = "rejected" THEN "network_error"
    ELSE IF ~c.res.ok THEN "server_error"
    ELSE IF ~c.res.parsable THEN "fallback"
    ELSE Dispatch(c.res.data)

\* C1: at most one send cycle is pending (request issued, not yet settled) at
\* any time.
C1_AtMostOneInFlight ==
    Cardinality({i \in Started : Pending(i)}) <= 1

\* C2: the step in which a cycle's request settles (response body read, or the
\* fetch rejected) leaves that cycle's typing row removed, the send button
\* enabled and the input focused.
C2_SettleRestoresIdle ==
    [][\A i \in Started :
          (Pending(i) /\ cycles'[i].pc = "done") =>
              /\ ~HasRow(log', TypingRow(i))
              /\ ~sendDisabled'
              /\ focused'
      ]_vars

\* C2 witness: one cycle has settled by a network failure and another by a
\* response with an unparsable body; no typing row is left, the send button is
\* enabled and the input focused.
C2_Witness ==
    /\ \E i, j \in Started :
          /\ cycles[i].pc = "done" /\ cycles[i].out = "rejected"
          /\ cycles[j].pc = "done" /\ cycles[j].out = "rendered"
          /\ cycles[j].res.ok /\ ~cycles[j].res.parsable
    /\ \A i \in Started : ~HasRow(log, TypingRow(i))
    /\ ~sendDisabled /\ focused

\* C3: every started cycle has exactly one user row; a pending cycle has no bot
\* row yet; a settled cycle has exactly one bot row, whose kind is the one its
\* outcome determines (network error, server error, fallback for an unparsable
\* body, the render dispatch's shape for a parsed body).
C3_OneRowPerOutcome ==
    \A i \in Started :
        /\ Cardinality(RowsOf(log, "you", i)) = 1
        /\ Pending(i) => RowsOf(log, "bot", i) = {}
        /\ cycles[i].pc = "done" =>
              /\ Cardinality(RowsOf(log, "bot", i)) = 1
              /\ \A k \in RowsOf(log, "bot", i) : log[k].kind = Expected(cycles[i])

\* C4: while a request is pending, the send button is disabled and the typing
\* row of that request is in the transcript.
C4_PendingKeepsDisabledAndTyping ==
    \A i \in Started :
        Pending(i) => (sendDisabled /\ HasRow(log, TypingRow(i)))

\* C5: a cycle that settled with a success status and a parsed body has no
\* network-error or server-error row.
C5_ParsedBodyNeverAnError ==
    \A i \in Started :
        (cycles[i].pc = "done" /\ cycles[i].out # "rejected"
            /\ cycles[i].res.ok /\ cycles[i].res.parsable) =>
            /\ ~HasRow(log, Row("bot", "network_error", i))
            /\ ~HasRow(log, Row("bot", "server_error", i))

-----------------------------------------------------------------------------
(* Claims about geometry and persistence, checked under GeomSpec *)

\* the rectangle the panel has when it is displayed
ShownRect(sty) == Rect(sty, "flex", vw, vh)
\* the record decoded from the stored text
Stored(text) == ParseObject(text.m)
Admits(r) == vw >= r.width + 2 * MARGIN /\ vh >= r.height + 2 * MARGIN

\* C6: after the end of any drag, if the viewport admits the panel (viewport
\* width >= width + 16, height >= height + 16), the panel's left/top lie in
\* [8, viewport - size - 8], and state.x/state.y and the stored x/y equal them.
C6_DragEndInsideViewport ==
    [][(PointerUp /\ drag.listening /\ drag.dragging) =>
        LET r == ShownRect(style')
        IN Admits(r) =>
            /\ MARGIN <= r.left /\ r.left <= vw - r.width - MARGIN
            /\ MARGIN <= r.top /\ r.top <= vh - r.height - MARGIN
            /\ state'.x = Num(r.left) /\ state'.y = Num(r.top)
            /\ ~lsThrows => (Stored(ls').x = Num(r.left) /\ Stored(ls').y = Num(r.top))
      ]_vars

\* C6 witness: a drag has ended with the panel pushed back from beyond the right
\* and bottom edges of a viewport that admits it, and the position is stored.
C6_Witness ==
    /\ drag # NoDrag /\ ~drag.dragging /\ display = "flex"
    /\ Admits(ShownRect(style))
    /\ drag.ox + 700 > vw - style.width - MARGIN
    /\ style.left = vw - style.width - MARGIN
    /\ style.top = vh - style.height - MARGIN
    /\ ~lsThrows /\ Stored(ls).x = Num(style.left)

\* C7: when the viewport is narrower than width + 16 (resp. lower than height
\* + 16), the clamp at the end of a drag or of a resize leaves left (resp. top)
\* equal to 8.
C7_PinnedTopLeft ==
    [][(PointerUp /\ ((drag.listening /\ drag.dragging) \/ (resz.listening /\ resz.resizing))
        /\ display = "flex") =>
        LET r == ShownRect(style')
        IN /\ vw < r.width + 2 * MARGIN => r.left = MARGIN
           /\ vh < r.height + 2 * MARGIN => r.top = MARGIN
      ]_vars

C9_StoredSizeAtLeastMinimum ==
    (inited /\ ~lsThrows) =>
        /\ IsNum(Stored(ls).w) /\ Stored(ls).w.v >= MIN_W
        /\ IsNum(Stored(ls).h) /\ Stored(ls).h.v >= MIN_H

\* C10: whenever `state` has w >= 300 and h >= 380, loading the text the widget
\* has saved yields a state equal to `state`; and when the stored text is absent
\* or cannot be decoded, or storage throws, loading yields the defaults.
C10_RoundTrip ==
    /\ (inited /\ ~lsThrows /\ IsNum(state.w) /\ state.w.v >= MIN_W
               /\ IsNum(state.h) /\ state.h.v >= MIN_H) =>
            (ls = Stringify(state) /\ Load(ls, lsThrows) = state)
    /\ (~inited /\ (lsThrows \/ ls.t = "absent" \/ ParseThrows(ls))) =>
            Load(ls, lsThrows) = Defaults

\* C10 witness: a state with a negative x, a number y, open true and a size
\* other than the default has been saved.
C10_Witness ==
    /\ inited /\ ~lsThrows
    /\ IsNum(state.x) /\ state.x.v < 0 /\ IsNum(state.y)
    /\ state.open = Bool(TRUE)
    /\ IsNum(state.w) /\ state.w.v >= MIN_W /\ state.w.v # DEFAULT_W
    /\ IsNum(state.h) /\ state.h.v >= MIN_H
    /\ ls = Stringify(state)

-----------------------------------------------------------------------------
(* Claims about startup and the panel lifecycle, checked under GeomSpec *)

\* C11: however many times the entry script runs, the page has exactly one
\* trigger and one panel once it has run (and none before), and a run after the
\* first changes nothing.
C11_StartupIdempotent ==
    /\ [](IF inited THEN fabs = 1 /\ panels = 1 ELSE fabs = 0 /\ panels = 0)
    /\ [][(inited /\ RunScript) => UNCHANGED vars]_vars

\* C11 witness: the script has run, the panel has since been opened, dragged
\* and closed (so later runs of the script were possible), and the page has one
\* trigger and one panel.
C11_Witness ==
    /\ inited /\ fabs = 1 /\ panels = 1
    /\ display = "none" /\ drag # NoDrag /\ ~drag.dragging

\* the stored text decodes to a record whose open is true
StoredOpen ==
    /\ ~lsThrows /\ ls.t = "object" /\ ~ParseThrows(ls)
    /\ "open" \in DOMAIN Stored(ls)
    /\ Stored(ls).open = Bool(TRUE)

\* C12: the first run of the script leaves the panel open iff the stored record
\* has open true; and in every state after it exactly one of panel and trigger
\* is displayed: the panel is displayed and the trigger hidden iff state.open is
\* true, otherwise the panel is hidden and the trigger displayed.
C12_ExactlyOneVisible ==
    /\ [](inited =>
            IF state.open = Bool(TRUE)
            THEN display = "flex" /\ fabDisplay = "none"
            ELSE display = "none" /\ fabDisplay = "flex")
    /\ [][(~inited /\ inited') => (state'.open = Bool(TRUE) <=> StoredOpen)]_vars

\* C12 witness: a page whose stored record had open true and a position has the
\* panel closed again by the user: panel hidden, trigger displayed, open false
\* in `state` and in storage.
C12_Witness ==
    /\ inited /\ ~lsThrows
    /\ state.x = Num(100) /\ state.w = Num(400)
    /\ state.open = Bool(FALSE) /\ Stored(ls).open = Bool(FALSE)
    /\ display = "none" /\ fabDisplay = "flex"

\* what one further call of open() (resp. close()) would leave, as a predicate
\* on the values it is given
AfterOpen(disp, fabDisp, s, text) ==
    /\ disp = "flex" /\ fabDisp = "none"
    /\ s.open = Bool(TRUE)
    /\ text = SaveState(s, text, lsThrows)
AfterClose(disp, fabDisp, s, text) ==
    /\ disp = "none" /\ fabDisp = "flex"
    /\ s.open = Bool(FALSE)
    /\ text = SaveState(s, text, lsThrows)

\* C13: open() and close() are idempotent: a call on a panel that is already
\* open (resp. closed) leaves panel visibility, trigger visibility, `state` and
\* the stored record unchanged, and what any call leaves is what a single call
\* leaves (a second call in a row would change none of the four).
C13_OpenCloseIdempotent ==
    [][/\ ApiOpen => /\ AfterOpen(display', fabDisplay', state', ls')
                     /\ AfterOpen(display, fabDisplay, state, ls)
                            => UNCHANGED <<display, fabDisplay, state, ls>>
       /\ ApiClose => /\ AfterClose(display', fabDisplay', state', ls')
                      /\ AfterClose(display, fabDisplay, state, ls)
                            => UNCHANGED <<display, fabDisplay, state, ls>>
      ]_vars

\* C13 witness: the panel is open after a gesture has ended on it, with open
\* true in `state` and the stored record equal to `state`: a state in which
\* open() is a redundant call.
C13_Witness ==
    /\ inited /\ ~lsThrows
    /\ AfterOpen(display, fabDisplay, state, ls)
    /\ resz # NoResize /\ ~resz.resizing
    /\ ls = Stringify(state)

-----------------------------------------------------------------------------
(* Claims about what writes `state`, checked under GeomSpec *)

\* the end listeners of a gesture in progress run in this step
DragEnds == PointerUp /\ drag.listening /\ drag.dragging
ResizeEnds == PointerUp /\ resz.listening /\ resz.resizing
PositionSet == \E p \in Positions : setPosition(p[1], p[2])

\* C16 as stated: once the script has run, state.x and state.y change only at
\* the end of a drag; open, close and a resize never make them non-null.
C16_NullUntilDrag ==
    [][(inited /\ (state'.x # state.x \/ state'.y # state.y)) => DragEnds]_vars

\* C16 as amended: once the script has run, state.x and state.y change only at
\* the end of a drag, at the end of a resize or in setPosition; open and close
\* never change them, so they stay null until the first of those three.
C16_NullUntilPlaced ==
    [][(inited /\ (state'.x # state.x \/ state'.y # state.y)) =>
            (DragEnds \/ ResizeEnds \/ PositionSet)]_vars

\* C16 witness: on a wide page with nothing stored, the only gesture so far was
\* a resize, it has ended, and state.x/state.y hold the corner-anchored position.
C16_Witness ==
    /\ inited /\ vw > MEDIA_MAX_W
    /\ gestures = 1 /\ drag = NoDrag
    /\ resz.listening = FALSE /\ resz.sw = DEFAULT_W /\ resz.sh = DEFAULT_H
    /\ display = "flex"
    /\ state.x = Num(vw - ANCHOR - style.width)
    /\ state.y = Num(vh - ANCHOR - style.height)

\* a step of openPanel or closePanel, the startup's call of either included
OpensOrCloses == RunScript \/ FabClick \/ ApiOpen \/ CloseClick \/ KeyEscape \/ ApiClose

\* C17 as stated: `state` and the stored record change only at the end of a
\* drag, at the end of a resize, in open and in close; no other step (a move of
\* a gesture, any other operation) changes either.
C17_WritersOfState ==
    [][(state' # state \/ ls' # ls) => (DragEnds \/ ResizeEnds \/ OpensOrCloses)]_vars

\* C17 as amended: `state` and the stored record change only at startup (load,
\* then open or close), at the end of a drag, at the end of a resize, in open,
\* in close and in setPosition; no move of a gesture changes either.
C17_WritersOfStateWithSetPosition ==
    [][/\ (state' # state \/ ls' # ls) =>
            (DragEnds \/ ResizeEnds \/ OpensOrCloses \/ PositionSet)
       /\ \A e \in MovePoints : PointerMove(e) => UNCHANGED <<state, ls>>
      ]_vars

\* C17 witness: a drag is in progress and has moved the panel away from the
\* position `state` and the stored record hold.
C17_Witness ==
    /\ inited /\ ~lsThrows /\ display = "flex"
    /\ drag.dragging /\ ~style.anchored
    /\ IsNum(state.x) /\ state.x.v # style.left
    /\ ls = Stringify(state)

-----------------------------------------------------------------------------
(* Claims about the gestures' document listeners, checked under GestureSpec *)

\* the style and `state` are what clampIntoViewport leaves
Clamped(sty, s, disp) ==
    LET c == clampIntoViewport(sty, s, disp)
    IN sty = c.style /\ s = c.state

\* what the end listeners leave when an end event is delivered: the gesture's
\* listeners detached, text selection restored after a drag, the panel clamped;
\* a gesture that is not in progress is left as it was
EndCleansUp ==
    /\ DragEnds => /\ ~drag'.listening /\ ~drag'.dragging
                   /\ userSelect' = ""
                   /\ Clamped(style', state', display')
    /\ ResizeEnds => /\ ~resz'.listening /\ ~resz'.resizing
                     /\ Clamped(style', state', display')
    /\ (PointerUp /\ ~drag.dragging) => UNCHANGED <<drag, userSelect>>
    /\ (PointerUp /\ ~resz.resizing) => UNCHANGED resz

\* C18: the document listeners of a gesture are attached exactly while that
\* gesture is in progress; once no pointer holds a gesture, however it ended
\* (a release with or without a move, or a touch sequence the browser
\* cancelled), no listener is attached and text selection is restored; the end
\* of a gesture leaves the panel clamped; an end event leaves a gesture that is
\* not in progress as it was.
C18_ListenersScoped ==
    /\ [](/\ drag.listening <=> drag.dragging
          /\ resz.listening <=> resz.resizing
          /\ userSelect = "none" <=> drag.dragging
          /\ ~pointerDown => (~drag.listening /\ ~resz.listening /\ userSelect = ""))
    /\ [][EndCleansUp]_vars

-----------------------------------------------------------------------------
(* Claims about the transcript, checked under SendSpec *)

\* the user and bot rows of a log, in order
Lasting(lg) == SelectSeq(lg, LAMBDA r : r.kind # "typing")
IsPrefix(a, b) == Len(a) <= Len(b) /\ SubSeq(b, 1, Len(a)) = a

\* C19: every step keeps the user and bot rows already in the transcript, in
\* their order, and only adds rows after them; a typing row leaves the
\* transcript only in the step in which its own cycle settles; and whenever no
\* request is pending the transcript has no typing row.
C19_TranscriptAppendOnly ==
    /\ []((\A i \in Started : ~Pending(i)) =>
              \A k \in 1..Len(log) : log[k].kind # "typing")
    /\ [][/\ IsPrefix(Lasting(log), Lasting(log'))
          /\ \A i \in Started :
                (HasRow(log, TypingRow(i)) /\ ~HasRow(log', TypingRow(i))) =>
                    (Pending(i) /\ cycles'[i].pc = "done")
         ]_vars

\* C19 witness: two requests overlapped; the second has settled and its typing
\* row is gone while the first is pending with its typing row still there, and
\* the user rows and the bot row are in the order they were appended.
C19_Witness ==
    /\ Len(cycles) = 2
    /\ Pending(1) /\ HasRow(log, TypingRow(1))
    /\ cycles[2].pc = "done" /\ ~HasRow(log, TypingRow(2))
    /\ Lasting(log) = <<Greeting, Row("you", "user", 1), Row("you", "user", 2),
                        Row("bot", "network_error", 2)>>

-----------------------------------------------------------------------------
(* Claims about the transcript's scroll position, checked under ScrollSpec *)

\* how far the log is from its bottom: scrollHeight - clientHeight - scrollTop
FromBottom(top, lg, sty) == ScrollMax(lg, sty) - top

\* C14: the scroll listener, run for a scroll of the log, leaves stickBottom
\* true iff the log is within 4px of its bottom; and every step that appends
\* rows (user row and typing row at a send, bot row when a cycle settles, the
\* greeting) leaves the log at its bottom when stickBottom was true and leaves
\* the scroll offset unchanged when it was false.
C14_StickToBottom ==
    [][/\ ScrollListener =>
            (stickBottom' <=> FromBottom(scrollTop, log, style) <= NEAR_BOTTOM)
       /\ log' # log =>
            IF stickBottom
            THEN scrollTop' = ScrollMax(log', style')
            ELSE scrollTop' = scrollTop
      ]_vars

\* C14 witness: with three rows in a panel of the default size the user
\* scrolled to 5px above the bottom, stickBottom became false, and the bot row
\* of that cycle and the two rows of the next send left the offset where it was.
C14_Witness ==
    /\ resz = NoResize /\ style.height = DEFAULT_H
    /\ Len(log) = 5 /\ Len(cycles) = 2 /\ cycles[1].pc = "done"
    /\ ~stickBottom /\ ~scrollEvt
    /\ scrollTop = ScrollMax(SubSeq(log, 1, 3), style) - NEAR_BOTTOM - 1
    /\ scrollTop < ScrollMax(log, style) - NEAR_BOTTOM

\* C20: an animation-frame callback that a resize move scheduled moves the log
\* (to its bottom) only if stickBottom is true when the callback runs.
C20_ReStickRespectsUser ==
    [][(AnimationFrame /\ raf = {"resize"} /\ scrollTop' # scrollTop) => stickBottom]_vars

-----------------------------------------------------------------------------
(* Claims about the render dispatch, checked under RenderSpec *)

\* C15: a cycle settled with a parsed body has one bot row; when renderBot
\* rendered, the row is that of the first shape the body matches in the order
\* recommendations (a list), summary, answer, fallback; and in no case is it
\* the row of a later shape (a body renderBot throws on gets the error row).
C15_DispatchPriority ==
    \A i \in Started :
        (cycles[i].pc = "done" /\ cycles[i].res.ok /\ cycles[i].res.parsable) =>
            /\ Cardinality(RowsOf(log, "bot", i)) = 1
            /\ \A k \in RowsOf(log, "bot", i) :
                  /\ log[k].kind \in {Dispatch(cycles[i].res.data), "network_error"}
                  /\ cycles[i].out = "rendered" =>
                        log[k].kind = Dispatch(cycles[i].res.data)

\* C15 witness: a body with a recommendations list, a summary, an answer and
\* raw gave the recommendations row, and a body whose recommendations are not a
\* list, with a summary and an answer, gave the summary row.
C15_Witness ==
    \E i, j \in Started :
        /\ cycles[i].pc = "done" /\ cycles[j].pc = "done"
        /\ cycles[i].res.data =
              Payload(List(<<"obj">>), FALSE, TRUE, Absent, TRUE, Absent, TRUE)
        /\ HasRow(log, Row("bot", "recommendations", i))
        /\ cycles[j].res.data =
              Payload(NonList, FALSE, TRUE, Absent, TRUE, Absent, FALSE)
        /\ HasRow(log, Row("bot", "summary", j))

====
